---- MODULE Spec2Model ----
(***************************************************************************)
(* The Transactions component of src/src/components/Transactions.js: a     *)
(* cursor-paginated window over the transaction history that is kept up to *)
(* date from a websocket feed.  The component's state object, the URL      *)
(* search parameters it reads and clears, the requests it has in flight    *)
(* and its websocket subscription are the state; the lifecycle methods,    *)
(* the websocket handler and the two continuations of getData are the      *)
(* actions.  React runs componentDidUpdate after every committed setState, *)
(* so each action that calls setState ends with that evaluation.           *)
(***************************************************************************)
EXTENDS Integers, Sequences, FiniteSets, TLC

\* Page size of the model (the program imports TX_COUNT from ../constants).
TX_COUNT == 2
\* Number of distinct transactions the backend and the feed can deliver.
MaxTx == 3

\* JavaScript null; a present value v is modelled as the one-element tuple <<v>>.
null == <<>>
Some(v) == <<v>>
\* JavaScript truthiness of a nullable value (the present values of the model
\* are non-empty strings, numbers other than 0 and objects).
truthy(x) == x # null

TxIds == 1..MaxTx
\* A transaction as the backend and the feed deliver it: tx_id is a hash
\* string, timestamp a number.
Tx(i) == [tx_id |-> "h" \o ToString(i), timestamp |-> 1000 + i]
Txs == {Tx(i) : i \in TxIds}

\* The rejection values getData can see: the simulated one of line 155 and
\* one from props.updateData.
Errors == {"simulated error!", "request failed"}

Pages == {"previous", "next"}

\* window.location.search as the three parameters the component uses.
NoSearch == [ts |-> null, hash |-> null, page |-> null]

\* The URLs a pagination link can lead to: the cursor of a transaction and a
\* direction, every value a string as URLSearchParams stores it.
CursorSearch(i, p) ==
  [ts |-> Some(ToString(Tx(i).timestamp)), hash |-> Some(Tx(i).tx_id), page |-> Some(p)]

\* "Either all URL parameters are set or they are all missing."
LegalSearch == {NoSearch} \cup {CursorSearch(i, p) : i \in TxIds, p \in Pages}

RECURSIVE SortDesc(_)
\* The transactions of a set of ids, most recent (highest timestamp) first.
SortDesc(S) ==
  IF S = {} THEN <<>>
  ELSE LET m == CHOOSE x \in S : \A y \in S : y <= x
       IN <<Tx(m)>> \o SortDesc(S \ {m})

\* What props.updateData can resolve with: at most TX_COUNT transactions,
\* most recent first, and the has_more flag.
FetchedData ==
  {[transactions |-> SortDesc(S), has_more |-> b] :
     S \in {T \in SUBSET TxIds : Cardinality(T) <= TX_COUNT}, b \in BOOLEAN}

VARIABLES
  state,          \* this.state
  location,       \* window.location.search (ts, hash, page)
  pending,        \* the queryParams of the getData calls not yet settled
  phase,          \* "constructed", then "mounted", then "unmounted"
  listening,      \* handleWebsocket is registered on 'network'
  lastWs,         \* history: the feed record shouldUpdateList accepted in the last step
  winAtIssue,     \* history: state.transactions when the last fetch was issued
  mergedInFlight, \* history: a feed record was merged since the last fetch was issued
  navSinceFail,   \* history: the URL changed since the last rejection
  failedQuery,    \* history: the queryParams of the request rejected last
  leftError,      \* history: the last step cleared the error of the state
  lastApplied,    \* history: the result the last step applied
  startup,        \* history: the start-up request is "pending", or it "failed" and
                  \* no request was issued since, or that time is "over"
  recording       \* which histories are kept: "feed" (lastWs), "window" (winAtIssue,
                  \* mergedInFlight), "retry" (navSinceFail, failedQuery) or
                  \* "recovery" (leftError), "applied" (mergedInFlight,
                  \* lastApplied) or "startup" (startup)

vars == <<state, location, pending, phase, listening, lastWs, winAtIssue,
          mergedInFlight, navSinceFail, failedQuery, leftError, lastApplied, startup,
          recording>>

\* obtainQueryParams(): the three URL parameters under the names of the state.
obtainQueryParams(loc) ==
  [timestamp |-> loc.ts, hash |-> loc.hash, page |-> loc.page]

\* clearQueryParams(): delete the three parameters and replace the URL.
clearQueryParams(loc) ==
  [loc EXCEPT !.ts = null, !.hash = null, !.page = null]

\* paginationUrl that leaves the direction out.
paginationUrlWithoutPage(loc, ts, hash, page) ==
  [loc EXCEPT !.ts = Some(ToString(ts)), !.hash = Some(hash)]

\* paginationUrl(ts, hash, page): the URL with the three parameters set;
\* URLSearchParams stores the number ts as its decimal string.
paginationUrl(loc, ts, hash, page) ==
  [loc EXCEPT !.ts = Some(ToString(ts)), !.hash = Some(hash), !.page = Some(page)]

\* A constructor that starts with loading false.
InitStateNotLoading(loc) ==
  [transactions |-> <<>>,
   firstHash |-> null, firstTimestamp |-> null,
   lastHash |-> null, lastTimestamp |-> null,
   loading |-> FALSE, hasAfter |-> FALSE, hasBefore |-> FALSE,
   queryParams |-> obtainQueryParams(loc),
   error |-> null]

\* The state the constructor builds.
InitState(loc) ==
  [transactions |-> <<>>,
   firstHash |-> null, firstTimestamp |-> null,
   lastHash |-> null, lastTimestamp |-> null,
   loading |-> TRUE, hasAfter |-> FALSE, hasBefore |-> FALSE,
   queryParams |-> obtainQueryParams(loc),
   error |-> null]

\* The three statuses the loading flag and the error encode.
Status ==
  IF state.loading THEN "Loading"
  ELSE IF truthy(state.error) THEN "Error" ELSE "Idle"

mounted == phase = "mounted"

\* The state after construction; rec says which histories are kept.
Start(rec) ==
  /\ recording = rec
  /\ location \in LegalSearch
  /\ state = InitState(location)
  /\ pending = <<>>
  /\ phase = "constructed"
  /\ listening = FALSE
  /\ lastWs = null
  /\ winAtIssue = <<>>
  /\ mergedInFlight = FALSE
  /\ navSinceFail = FALSE
  /\ failedQuery = null
  /\ leftError = FALSE
  /\ lastApplied = null
  /\ startup = "pending"

Init == Start("feed")

InitWindow == Start("window")

InitRetry == Start("retry")

InitRecovery == Start("recovery")

InitApplied == Start("applied")

InitStartup == Start("startup")

\* helpers.updateListWs without the check for an id already in the list.
helpersUpdateListWsNoDuplicateCheck(list, newEl, max) ==
  IF Len(list) = max
  THEN <<newEl>> \o SubSeq(list, 1, Len(list) - 1)
  ELSE <<newEl>> \o list

\* helpers.updateListWs(list, newEl, max): a record whose id is already in the
\* list changes nothing; otherwise the last element is dropped when the list
\* holds max elements and the new one is inserted at position 0.
helpersUpdateListWs(list, newEl, max) ==
  IF \E k \in 1..Len(list) : list[k].tx_id = newEl.tx_id THEN list
  ELSE IF Len(list) = max
       THEN <<newEl>> \o SubSeq(list, 1, Len(list) - 1)
       ELSE <<newEl>> \o list

\* getData(queryParams): one more request in flight, remembered with the
\* queryParams its continuations close over.
getData(pend, queryParams) == Append(pend, queryParams)

RECURSIVE componentDidUpdateNoJustErrored(_, _, _, _)
\* componentDidUpdate that skips only while loading.
componentDidUpdateNoJustErrored(st, prevState, loc, pend) ==
  LET queryParams == obtainQueryParams(loc)
  IN IF /\ ~st.loading
        /\ st.queryParams # queryParams
        /\ (truthy(queryParams.hash) \/ st.hasBefore)
     THEN componentDidUpdateNoJustErrored([st EXCEPT !.loading = TRUE, !.error = null],
                                          st, loc, getData(pend, queryParams))
     ELSE [state |-> st, pending |-> pend]

RECURSIVE componentDidUpdateKeepsError(_, _, _, _)
\* componentDidUpdate whose setState leaves the error in place.
componentDidUpdateKeepsError(st, prevState, loc, pend) ==
  LET queryParams == obtainQueryParams(loc)
      justErrored == truthy(st.error) /\ ~truthy(prevState.error)
      skipGetData == st.loading \/ justErrored
  IN IF /\ ~skipGetData
        /\ st.queryParams # queryParams
        /\ (truthy(queryParams.hash) \/ st.hasBefore)
     THEN componentDidUpdateKeepsError([st EXCEPT !.loading = TRUE], st,
                                       loc, getData(pend, queryParams))
     ELSE [state |-> st, pending |-> pend]

RECURSIVE componentDidUpdateAnyNewParams(_, _, _, _)
\* componentDidUpdate that fetches for any new URL parameters.
componentDidUpdateAnyNewParams(st, prevState, loc, pend) ==
  LET queryParams == obtainQueryParams(loc)
      justErrored == truthy(st.error) /\ ~truthy(prevState.error)
      skipGetData == st.loading \/ justErrored
  IN IF ~skipGetData /\ st.queryParams # queryParams
     THEN componentDidUpdateAnyNewParams([st EXCEPT !.loading = TRUE, !.error = null],
                                         st, loc, getData(pend, queryParams))
     ELSE [state |-> st, pending |-> pend]

RECURSIVE componentDidUpdateJustRecovered(_, _, _, _)
\* componentDidUpdate that skips when the error was just cleared instead of
\* just set.
componentDidUpdateJustRecovered(st, prevState, loc, pend) ==
  LET queryParams == obtainQueryParams(loc)
      justRecovered == ~truthy(st.error) /\ truthy(prevState.error)
      skipGetData == st.loading \/ justRecovered
  IN IF /\ ~skipGetData
        /\ st.queryParams # queryParams
        /\ (truthy(queryParams.hash) \/ st.hasBefore)
     THEN componentDidUpdateJustRecovered([st EXCEPT !.loading = TRUE, !.error = null],
                                          st, loc, getData(pend, queryParams))
     ELSE [state |-> st, pending |-> pend]

RECURSIVE componentDidUpdate(_, _, _, _)
\* componentDidUpdate(prevProps, prevState) on the committed state st; the
\* setState it makes commits in turn and runs it again.
componentDidUpdate(st, prevState, loc, pend) ==
  LET queryParams == obtainQueryParams(loc)
      justErrored == truthy(st.error) /\ ~truthy(prevState.error)
      skipGetData == st.loading \/ justErrored
  IN IF /\ ~skipGetData
        /\ st.queryParams # queryParams
        /\ (truthy(queryParams.hash) \/ st.hasBefore)
     THEN componentDidUpdate([st EXCEPT !.loading = TRUE, !.error = null], st,
                             loc, getData(pend, queryParams))
     ELSE [state |-> st, pending |-> pend]

\* A setState of updateListWs that leaves the cursors of the last record out.
WsStateKeepsLastCursor(st, transactions, hasAfter) ==
  [st EXCEPT !.transactions = transactions,
             !.hasAfter = hasAfter,
             !.firstHash = Some(transactions[1].tx_id),
             !.firstTimestamp = Some(transactions[1].timestamp)]

\* The state updateListWs passes to setState when it merged into `transactions`
\* and computed `hasAfter`.
WsState(st, transactions, hasAfter) ==
  [st EXCEPT !.transactions = transactions,
             !.hasAfter = hasAfter,
             !.firstHash = Some(transactions[1].tx_id),
             !.firstTimestamp = Some(transactions[1].timestamp),
             !.lastHash = Some(transactions[Len(transactions)].tx_id),
             !.lastTimestamp = Some(transactions[Len(transactions)].timestamp)]

\* updateListWs with the capacity off by one.
updateListWsOffByOne(st, tx, shouldUpdateList) ==
  IF ~st.hasBefore /\ shouldUpdateList
  THEN [called |-> TRUE,
        state |-> WsState(st, helpersUpdateListWs(st.transactions, tx, TX_COUNT + 1),
                          st.hasAfter \/ (Len(st.transactions) = TX_COUNT /\ ~st.hasAfter))]
  ELSE [called |-> FALSE, state |-> st]

\* updateListWs without the first-page condition.
updateListWsAnyPage(st, tx, shouldUpdateList) ==
  IF shouldUpdateList
  THEN [called |-> TRUE,
        state |-> WsState(st, helpersUpdateListWs(st.transactions, tx, TX_COUNT),
                          st.hasAfter \/ (Len(st.transactions) = TX_COUNT /\ ~st.hasAfter))]
  ELSE [called |-> FALSE, state |-> st]

\* updateListWs that sets hasAfter on every merge.
updateListWsAlwaysHasAfter(st, tx, shouldUpdateList) ==
  IF ~st.hasBefore /\ shouldUpdateList
  THEN [called |-> TRUE,
        state |-> WsState(st, helpersUpdateListWs(st.transactions, tx, TX_COUNT), TRUE)]
  ELSE [called |-> FALSE, state |-> st]

\* updateListWs(tx): whether it calls setState, and the state it then passes.
updateListWs(st, tx, shouldUpdateList) ==
  IF ~st.hasBefore /\ shouldUpdateList
  THEN LET hasAfter == st.hasAfter
                         \/ (Len(st.transactions) = TX_COUNT /\ ~st.hasAfter)
           transactions == helpersUpdateListWs(st.transactions, tx, TX_COUNT)
       IN [called |-> TRUE, state |-> WsState(st, transactions, hasAfter)]
  ELSE [called |-> FALSE, state |-> st]

\* handleDataFetched that never clears the URL.
handleDataFetchedKeepsUrl(st, loc, data, queryParams) ==
  LET n == Len(data.transactions)
      isPrevious == queryParams.page = Some("previous")
      isNext == queryParams.page = Some("next")
  IN [state |->
        [st EXCEPT !.transactions = data.transactions,
                   !.loading = FALSE,
                   !.firstHash = IF n > 0 THEN Some(data.transactions[1].tx_id) ELSE null,
                   !.lastHash = IF n > 0 THEN Some(data.transactions[n].tx_id) ELSE null,
                   !.firstTimestamp =
                       IF n > 0 THEN Some(data.transactions[1].timestamp) ELSE null,
                   !.lastTimestamp =
                       IF n > 0 THEN Some(data.transactions[n].timestamp) ELSE null,
                   !.hasAfter = IF isPrevious THEN TRUE ELSE data.has_more,
                   !.hasBefore = IF isPrevious THEN data.has_more ELSE isNext,
                   !.queryParams = queryParams],
      location |-> loc]

\* handleDataFetched that leaves queryParams out of its setState.
handleDataFetchedKeepsQueryParams(st, loc, data, queryParams) ==
  LET n == Len(data.transactions)
      isPrevious == queryParams.page = Some("previous")
      isNext == queryParams.page = Some("next")
      hasAfter == IF isPrevious THEN TRUE ELSE data.has_more
      hasBefore == IF isPrevious THEN data.has_more ELSE isNext
  IN [state |->
        [st EXCEPT !.transactions = data.transactions,
                   !.loading = FALSE,
                   !.firstHash = IF n > 0 THEN Some(data.transactions[1].tx_id) ELSE null,
                   !.lastHash = IF n > 0 THEN Some(data.transactions[n].tx_id) ELSE null,
                   !.firstTimestamp =
                       IF n > 0 THEN Some(data.transactions[1].timestamp) ELSE null,
                   !.lastTimestamp =
                       IF n > 0 THEN Some(data.transactions[n].timestamp) ELSE null,
                   !.hasAfter = hasAfter,
                   !.hasBefore = hasBefore],
      location |-> IF isPrevious /\ ~hasBefore THEN clearQueryParams(loc) ELSE loc]

\* handleDataFetched(data, queryParams): the state it passes to setState and
\* the URL it leaves.
handleDataFetched(st, loc, data, queryParams) ==
  LET n == Len(data.transactions)
      isPrevious == queryParams.page = Some("previous")
      isNext == queryParams.page = Some("next")
      hasAfter == IF isPrevious THEN TRUE ELSE data.has_more
      hasBefore == IF isPrevious THEN data.has_more ELSE isNext
  IN [state |->
        [st EXCEPT !.transactions = data.transactions,
                   !.loading = FALSE,
                   !.firstHash = IF n > 0 THEN Some(data.transactions[1].tx_id) ELSE null,
                   !.lastHash = IF n > 0 THEN Some(data.transactions[n].tx_id) ELSE null,
                   !.firstTimestamp =
                       IF n > 0 THEN Some(data.transactions[1].timestamp) ELSE null,
                   !.lastTimestamp =
                       IF n > 0 THEN Some(data.transactions[n].timestamp) ELSE null,
                   !.hasAfter = hasAfter,
                   !.hasBefore = hasBefore,
                   !.queryParams = queryParams],
      location |-> IF isPrevious /\ ~hasBefore THEN clearQueryParams(loc) ELSE loc]

\* A rejection continuation that also empties the list.
handleFetchErrorClearsList(st, e) ==
  [st EXCEPT !.loading = FALSE, !.error = Some(e), !.transactions = <<>>,
             !.firstHash = null, !.firstTimestamp = null,
             !.lastHash = null, !.lastTimestamp = null]

\* The rejection continuation of getData: setState({ loading: false, error: e }).
handleFetchError(st, e) == [st EXCEPT !.loading = FALSE, !.error = Some(e)]

\* The sequence s without its k-th element.
RemoveAt(s, k) == SubSeq(s, 1, k - 1) \o SubSeq(s, k + 1, Len(s))

\* The ids of the transactions of a list.
IdsOf(list) == {list[k].tx_id : k \in 1..Len(list)}

\* The history variables after a step that leaves the state st and the requests
\* pend in flight; issued says that the step called getData, merged that it
\* merged a feed record, op names the step, settled is <<q>> when it handled
\* the rejection of the request q and <<[data, queryParams]>> when it applied
\* the result data of the request queryParams.
History(st, pend, issued, merged, op, settled) ==
  /\ recording' = recording
  /\ IF recording = "window"
     THEN winAtIssue' = IF issued THEN st.transactions
                        ELSE IF pend # <<>> \/ op = "reject" THEN winAtIssue ELSE <<>>
     ELSE UNCHANGED winAtIssue
  /\ IF recording \in {"window", "applied"}
     THEN mergedInFlight' = IF issued THEN FALSE
                            ELSE IF pend # <<>> THEN (mergedInFlight \/ merged)
                            ELSE IF op = "reject" THEN mergedInFlight ELSE FALSE
     ELSE UNCHANGED mergedInFlight
  /\ IF recording = "applied"
     THEN lastApplied' =
            IF op = "resolve"
            THEN Some([data |-> settled[1].data,
                       queryParams |-> settled[1].queryParams,
                       discarded |-> (/\ mergedInFlight
                                      /\ ~(IdsOf(state.transactions)
                                             \subseteq IdsOf(st.transactions))),
                       reissued |-> issued])
            ELSE null
     ELSE UNCHANGED lastApplied
  /\ IF recording = "startup"
     THEN startup' = IF startup = "pending"
                     THEN (IF op = "resolve" THEN "over"
                           ELSE IF op = "reject" /\ ~issued THEN "failed"
                           ELSE IF op = "reject" THEN "over" ELSE "pending")
                     ELSE IF startup = "failed" /\ ~issued THEN "failed" ELSE "over"
     ELSE UNCHANGED startup
  /\ IF recording = "retry"
     THEN /\ navSinceFail' = IF ~truthy(st.error) \/ op = "reject" THEN FALSE
                             ELSE (navSinceFail \/ op = "navigate")
          /\ failedQuery' = IF ~truthy(st.error) THEN null
                            ELSE IF op = "reject" THEN settled ELSE failedQuery
     ELSE UNCHANGED <<navSinceFail, failedQuery>>
  /\ IF recording = "recovery"
     THEN leftError' = (truthy(state.error) /\ ~truthy(st.error))
     ELSE UNCHANGED leftError

\* componentDidMount(): the start-up fetch and the websocket subscription.
componentDidMount ==
  /\ phase = "constructed"
  /\ phase' = "mounted"
  /\ listening' = TRUE
  /\ pending' = getData(pending, state.queryParams)
  /\ lastWs' = null
  /\ History(state, pending', TRUE, FALSE, "mount", null)
  /\ UNCHANGED <<state, location>>

\* The commit of a setState made by a handler: the new state, then
\* componentDidUpdate with the state before it.
Commit(st, loc, pend, merged, op, settled) ==
  LET r == componentDidUpdate(st, state, loc, pend)
  IN /\ state' = r.state
     /\ pending' = r.pending
     /\ location' = loc
     /\ History(r.state, r.pending, Len(r.pending) > Len(pend), merged, op, settled)

\* The URL changes from outside (the address bar, history navigation, a link
\* of another component) and the router renders the component again.
ExternalChange(loc) ==
  /\ mounted
  /\ loc # location
  /\ lastWs' = null
  /\ Commit(state, loc, pending, FALSE, "navigate", null)
  /\ UNCHANGED <<phase, listening>>

\* The user follows the Previous or the Next link render() builds with
\* paginationUrl from the boundary cursors; the links exist only while the
\* window is not empty.
ClickLink(page) ==
  /\ mounted
  /\ Len(state.transactions) # 0
  /\ LET loc == IF page = "previous"
                THEN paginationUrl(location, state.firstTimestamp[1],
                                   state.firstHash[1], page)
                ELSE paginationUrl(location, state.lastTimestamp[1],
                                   state.lastHash[1], page)
     IN /\ lastWs' = null
        /\ Commit(state, loc, pending, FALSE, "navigate", null)
  /\ UNCHANGED <<phase, listening>>

\* The parent renders the component again while the URL is the same.
ReRender ==
  /\ mounted
  /\ lastWs' = null
  /\ Commit(state, location, pending, FALSE, "rerender", null)
  /\ UNCHANGED <<phase, listening>>

\* What lastWs keeps of an accepted feed record that reached setState: its
\* id, whether the step before merged the same id, whether the id was in the
\* list already and whether the list was full.
Merged(tx) ==
  Some([merged |-> Some(tx.tx_id),
        again |-> (lastWs # null /\ lastWs[1].merged = Some(tx.tx_id)),
        present |-> (tx.tx_id \in IdsOf(state.transactions)),
        wasFull |-> (Len(state.transactions) = TX_COUNT)])

\* What lastWs keeps of an accepted feed record that updateListWs left out.
Blocked == Some([merged |-> null, again |-> FALSE, present |-> FALSE, wasFull |-> FALSE])

\* What the websocket delivers: a transaction under 'network:new_tx_accepted',
\* or a message of another type.
WsData ==
  {[type |-> "network:new_tx_accepted", tx |-> tx] : tx \in Txs}
    \cup {[type |-> "network:dashboard", tx |-> null]}

\* handleWebsocket(wsData): only 'network:new_tx_accepted' reaches
\* updateListWs; componentDidUpdate runs only when updateListWs calls setState.
handleWebsocket(wsData, shouldUpdateList) ==
  /\ listening
  /\ UNCHANGED <<phase, listening>>
  /\ LET accepted == wsData.type = "network:new_tx_accepted"
      r == IF accepted
           THEN updateListWs(state, wsData.tx, shouldUpdateList)
           ELSE [called |-> FALSE, state |-> state]
     IN IF r.called
        THEN /\ lastWs' = IF recording = "feed" THEN Merged(wsData.tx) ELSE null
             /\ Commit(r.state, location, pending, TRUE, "live", null)
        ELSE /\ lastWs' = IF recording = "feed" /\ accepted /\ shouldUpdateList
                          THEN Blocked ELSE null
             /\ UNCHANGED <<state, location, pending>>
             /\ History(state, pending, FALSE, FALSE, "live", null)

\* The k-th request in flight resolves with data (the success continuation of
\* getData): handleDataFetched.  Nothing cancels the continuation when the
\* component is unmounted; React then ignores its setState, and the URL is
\* cleared by handleDataFetched all the same.
FetchResolved(k, data) ==
  /\ k \in DOMAIN pending
  /\ lastWs' = null
  /\ UNCHANGED <<phase, listening>>
  /\ LET h == handleDataFetched(state, location, data, pending[k])
     IN IF mounted
        THEN Commit(h.state, h.location, RemoveAt(pending, k), FALSE, "resolve",
                    Some([data |-> data, queryParams |-> pending[k]]))
        ELSE /\ location' = h.location
             /\ pending' = RemoveAt(pending, k)
             /\ leftError' = FALSE
             /\ lastApplied' = null
             /\ startup' = (IF recording = "startup" THEN "over" ELSE startup)
             /\ UNCHANGED <<state, winAtIssue, mergedInFlight, navSinceFail,
                            failedQuery, recording>>

\* The k-th request in flight is rejected with e (by props.updateData or by
\* the simulated error of getData); React ignores the setState of an unmounted
\* component.
FetchRejected(k, e) ==
  /\ k \in DOMAIN pending
  /\ lastWs' = null
  /\ UNCHANGED <<phase, listening>>
  /\ IF mounted
     THEN Commit(handleFetchError(state, e), location, RemoveAt(pending, k), FALSE,
                 "reject", Some(pending[k]))
     ELSE /\ pending' = RemoveAt(pending, k)
          /\ leftError' = FALSE
          /\ lastApplied' = null
          /\ startup' = (IF recording = "startup" THEN "over" ELSE startup)
          /\ UNCHANGED <<state, location, winAtIssue, mergedInFlight, navSinceFail,
                         failedQuery, recording>>

\* componentWillUnmount(): the websocket listener is removed; requests in
\* flight stay in flight.
componentWillUnmount ==
  /\ mounted
  /\ phase' = "unmounted"
  /\ listening' = FALSE
  /\ lastWs' = null
  /\ leftError' = FALSE
  /\ lastApplied' = null
  /\ UNCHANGED <<state, location, pending, winAtIssue, mergedInFlight, navSinceFail,
                 failedQuery, startup, recording>>

Next ==
  \/ componentDidMount
  \/ \E loc \in LegalSearch : ExternalChange(loc)
  \/ \E page \in Pages : ClickLink(page)
  \/ ReRender
  \/ \E wsData \in WsData, accept \in BOOLEAN : handleWebsocket(wsData, accept)
  \/ \E k \in DOMAIN pending, data \in FetchedData : FetchResolved(k, data)
  \/ \E k \in DOMAIN pending, e \in Errors : FetchRejected(k, e)
  \/ componentWillUnmount

Spec == Init /\ [][Next]_vars

\* The same program with the history of the window at the last getData.
SpecWindow == InitWindow /\ [][Next]_vars

\* The same program with the history of the last rejection.
SpecRetry == InitRetry /\ [][Next]_vars

\* The same program with the history of the step that left Error.
SpecRecovery == InitRecovery /\ [][Next]_vars

\* The same program with the history of the result applied last.
SpecApplied == InitApplied /\ [][Next]_vars

\* The same program with the history of the start-up request.
SpecStartup == InitStartup /\ [][Next]_vars

(***************************************************************************)
(* The claims.                                                             *)
(***************************************************************************)

\* The list with its boundary cursors.
Window(st) ==
  <<st.transactions, st.firstHash, st.firstTimestamp, st.lastHash, st.lastTimestamp>>

\* A step of the websocket handler.
FeedEvent == \E wsData \in WsData, accept \in BOOLEAN : handleWebsocket(wsData, accept)

\* The feed delivers tx and shouldUpdateList accepts it.
Accepted(tx) == handleWebsocket([type |-> "network:new_tx_accepted", tx |-> tx], TRUE)

\* C1: at most one fetch is in flight at any time, and while a fetch is in
\* flight the mounted component has loading set, so that no evaluation of
\* componentDidUpdate issues a second one, whatever the URL holds.
C1_SingleInFlightFetch ==
  /\ Len(pending) <= 1
  /\ (mounted /\ pending # <<>>) => state.loading

\* The URL was changed while a fetch was in flight: it holds a cursor that is
\* neither the applied queryParams nor the request in flight, and that request
\* is still the only one.
C1_Witness ==
  /\ mounted
  /\ state.loading
  /\ Len(pending) = 1
  /\ truthy(location.hash)
  /\ obtainQueryParams(location) # state.queryParams
  /\ obtainQueryParams(location) # pending[1]

\* C2: the window never holds more than TX_COUNT transactions.
C2_Capacity == Len(state.transactions) <= TX_COUNT

\* A transaction that was not in the list was merged into a full list.
C2_Witness ==
  /\ lastWs # null
  /\ truthy(lastWs[1].merged)
  /\ lastWs[1].wasFull
  /\ ~lastWs[1].present
  /\ Len(state.transactions) = TX_COUNT

\* C3: while hasBefore is set a feed event changes neither the window, nor
\* the boundary cursors, nor hasAfter, whatever shouldUpdateList answers.
C3_NoLiveMergeWhenPaginatedBack ==
  [][(state.hasBefore /\ FeedEvent)
       => (Window(state') = Window(state) /\ state'.hasAfter = state.hasAfter)]_vars

\* A feed record that shouldUpdateList accepted arrived while hasBefore was
\* set and the window was not empty, and was left out.
C3_Witness ==
  /\ lastWs = Blocked
  /\ state.hasBefore
  /\ state.transactions # <<>>

\* C4: handling a rejection on the mounted component sets loading to false
\* and error to the rejection value, and leaves every other field of the
\* state (window, cursors, hasBefore, hasAfter, queryParams) as it was.
C4_RejectionKeepsWindow ==
  [][\A k \in DOMAIN pending, e \in Errors :
       (mounted /\ FetchRejected(k, e))
         => state' = [state EXCEPT !.loading = FALSE, !.error = Some(e)]]_vars

\* A rejection was handled while the window was not empty and the URL held
\* a cursor other than the applied one.
C4_Witness ==
  /\ Status = "Error"
  /\ state.transactions # <<>>
  /\ truthy(location.hash)
  /\ obtainQueryParams(location) # state.queryParams

\* C5 as claimed: when a rejection puts the component in Error, the window is
\* the window the component had when that fetch was issued.
C5_WindowAsBeforeTheCall ==
  [][(mounted /\ \E k \in DOMAIN pending, e \in Errors : FetchRejected(k, e))
       => (Status' = "Error" /\ state'.transactions = winAtIssue)]_vars

\* C5 as amended: when a rejection puts the component in Error and no feed
\* record was merged while that fetch was in flight, the window is the window
\* the component had when the fetch was issued.
C5_WindowAsBeforeTheCallUnlessMerged ==
  [][(mounted /\ ~mergedInFlight
        /\ \E k \in DOMAIN pending, e \in Errors : FetchRejected(k, e))
       => (Status' = "Error" /\ state'.transactions = winAtIssue)]_vars

\* A fetch issued over a window that was not empty was rejected, and no feed
\* record was merged in between.
C5_Witness ==
  /\ recording = "window"
  /\ Status = "Error"
  /\ ~mergedInFlight
  /\ winAtIssue # <<>>
  /\ state.transactions = winAtIssue

\* C6: applying a result on the mounted component sets the flags by the
\* direction of the request: next gives hasBefore and hasAfter = has_more;
\* previous gives hasAfter and hasBefore = has_more, and with has_more false
\* the URL holds none of the three parameters afterwards; no direction gives
\* hasBefore false and hasAfter = has_more.
C6_DirectionalFlags ==
  [][\A k \in DOMAIN pending, has_more \in BOOLEAN :
       LET data == [transactions |-> state'.transactions, has_more |-> has_more]
       IN (mounted /\ FetchResolved(k, data))
         => LET page == pending[k].page
            IN /\ page = Some("next")
                    => (state'.hasBefore /\ state'.hasAfter = data.has_more)
               /\ page = Some("previous")
                    => /\ state'.hasAfter
                       /\ state'.hasBefore = data.has_more
                       /\ ~data.has_more => location' = NoSearch
               /\ page = null
                    => (~state'.hasBefore /\ state'.hasAfter = data.has_more)]_vars

\* The result of a 'previous' request with has_more false was applied and the
\* URL is cleared.
C6_Witness ==
  /\ mounted
  /\ Status = "Idle"
  /\ state.queryParams.page = Some("previous")
  /\ state.hasAfter
  /\ ~state.hasBefore
  /\ location = NoSearch

\* C7 as claimed: once the component is unmounted no step changes its state
\* or the URL.
C7_NothingChangesAfterUnmount ==
  [][phase = "unmounted" => (state' = state /\ location' = location)]_vars

\* C8 as claimed: while the component shows the error of a rejected fetch and
\* the URL has not changed since that rejection and still holds the
\* parameters of the rejected request, a step that leaves the URL alone
\* issues no fetch.
C8_NoAutomaticRetry ==
  [][(/\ Status = "Error"
      /\ ~navSinceFail
      /\ failedQuery = Some(obtainQueryParams(location))
      /\ location' = location)
       => pending' = pending]_vars

\* C9: when the feed delivers, accepted and on the first page, the
\* transaction it delivered in the step before, the list stays as the first
\* delivery left it.
C9_IdempotentLiveMerge ==
  [][\A tx \in Txs :
       (/\ lastWs # null
        /\ lastWs[1].merged = Some(tx.tx_id)
        /\ Accepted(tx))
         => state'.transactions = state.transactions]_vars

\* The feed delivered the same transaction twice in a row into a full window.
C9_Witness ==
  /\ lastWs # null
  /\ lastWs[1].again
  /\ Len(state.transactions) = TX_COUNT

\* C10: an accepted transaction that is not in the list, arriving on the
\* first page: a full list becomes the new transaction followed by all but
\* the last of the old ones and hasAfter is set; a shorter list becomes the
\* new transaction followed by the old ones and hasAfter stays.
C10_LiveMergeOfNewRecord ==
  [][\A tx \in Txs :
       (/\ ~state.hasBefore
        /\ tx.tx_id \notin IdsOf(state.transactions)
        /\ Accepted(tx))
         => LET old == state.transactions
            IN IF Len(old) = TX_COUNT
               THEN /\ state'.transactions = <<tx>> \o SubSeq(old, 1, TX_COUNT - 1)
                    /\ state'.hasAfter
               ELSE /\ state'.transactions = <<tx>> \o old
                    /\ state'.hasAfter = state.hasAfter]_vars

\* A new transaction was merged into a full list and is its first record.
C10_Witness ==
  /\ lastWs # null
  /\ truthy(lastWs[1].merged)
  /\ ~lastWs[1].present
  /\ lastWs[1].wasFull
  /\ state.hasAfter
  /\ state.firstHash = lastWs[1].merged

\* The rejection of a request is handled on the mounted component.
Failed == mounted /\ \E k \in DOMAIN pending, e \in Errors : FetchRejected(k, e)

\* C11: the error is cleared by fetching again: a step that leaves one more
\* request in flight leaves loading set and error null, error is null in
\* every state with loading set, and a step that takes the mounted component
\* out of loading without handling a rejection, that is by applying a
\* result, leaves error null.
C11_ErrorClearedByRefetch ==
  /\ [](state.loading => state.error = null)
  /\ [][/\ Len(pending') > Len(pending) => (state'.loading /\ state'.error = null)
        /\ (mounted /\ state.loading /\ ~state'.loading /\ ~Failed)
             => (Status' = "Idle" /\ state'.error = null)]_vars

\* A fetch was just issued from Error: the state is loading and shows no
\* error.
C11_Witness ==
  /\ recording = "recovery"
  /\ leftError
  /\ Status = "Loading"
  /\ Len(pending) = 1

\* The URL holds parameters other than the applied queryParams, and either a
\* hash or hasBefore is set: the condition under which componentDidUpdate
\* fetches.
NewParams(st, loc) ==
  LET queryParams == obtainQueryParams(loc)
  IN /\ st.queryParams # queryParams
     /\ (truthy(queryParams.hash) \/ st.hasBefore)

\* C12 as claimed: after a result was applied the window is the returned
\* page, the applied queryParams are the requested ones and the component is
\* not loading; a request without cursor answered with has_more false leaves
\* hasBefore and hasAfter false.
C12_ResultAppliedAndIdle ==
  lastApplied # null
    => LET data == lastApplied[1].data
           queryParams == lastApplied[1].queryParams
       IN /\ state.transactions = data.transactions
          /\ state.queryParams = queryParams
          /\ ~state.loading
          /\ (queryParams.page = null /\ ~data.has_more)
               => (~state.hasBefore /\ ~state.hasAfter)

\* C12 as amended: after a result was applied the window is the returned
\* page and the applied queryParams are the requested ones; the component is
\* not loading, unless the URL then holds other parameters with a hash or
\* hasBefore set, in which case the fetch for those parameters was issued in
\* the same step and the component is loading again.
C12_ResultAppliedThenUrlObserved ==
  lastApplied # null
    => LET data == lastApplied[1].data
           queryParams == lastApplied[1].queryParams
       IN /\ state.transactions = data.transactions
          /\ state.queryParams = queryParams
          /\ IF NewParams(state, location)
             THEN /\ state.loading
                  /\ lastApplied[1].reissued
                  /\ pending = <<obtainQueryParams(location)>>
             ELSE /\ ~state.loading
                  /\ ~lastApplied[1].reissued
                  /\ pending = <<>>
          /\ (queryParams.page = null /\ ~data.has_more)
               => (~state.hasBefore /\ ~state.hasAfter)

\* A result was applied over a window that held a record merged from the
\* feed while the request was in flight; the record is gone and the
\* component is not loading.
C12_Witness ==
  /\ recording = "applied"
  /\ lastApplied # null
  /\ lastApplied[1].discarded
  /\ ~lastApplied[1].reissued
  /\ Status = "Idle"
  /\ state.transactions # <<>>

\* The three parameters are all set or all missing.
AllOrNothing(queryParams) ==
  \/ truthy(queryParams.timestamp) /\ truthy(queryParams.hash) /\ truthy(queryParams.page)
  \/ queryParams = obtainQueryParams(NoSearch)

\* C13: the URL and the applied queryParams each hold all three of ts, hash
\* and page or none of them, after any fetches, feed events, pagination
\* links and clearing of the URL, when the URL started that way.
C13_AllOrNothing ==
  /\ AllOrNothing(obtainQueryParams(location))
  /\ AllOrNothing(state.queryParams)

\* The Next link of a window that is not empty was followed from a URL
\* without parameters: the URL holds the cursor of the last record with its
\* timestamp as a string, and the fetch for it is in flight.
C13_Witness ==
  /\ mounted
  /\ state.transactions # <<>>
  /\ state.queryParams = obtainQueryParams(NoSearch)
  /\ location = [ts |-> Some(ToString(state.lastTimestamp[1])),
                 hash |-> state.lastHash, page |-> Some("next")]
  /\ pending = <<obtainQueryParams(location)>>

\* componentDidUpdate runs because the URL changed or the parent rendered
\* again, with no setState before it.
Observed ==
  \/ \E loc \in LegalSearch : ExternalChange(loc)
  \/ \E page \in Pages : ClickLink(page)
  \/ ReRender

\* C14: when componentDidUpdate runs for a URL change or a re-render while
\* the component is not loading, it fetches with the parameters of the URL
\* (setting loading and clearing the error) exactly when they differ from
\* the applied queryParams and either they hold a hash or hasBefore is set;
\* otherwise it calls neither getData nor setState.  Clearing the URL while
\* hasBefore is false fetches nothing.
C14_ExternalChangeRule ==
  [][(~state.loading /\ Observed)
       => LET queryParams == obtainQueryParams(location')
          IN /\ IF /\ state.queryParams # queryParams
                   /\ (truthy(queryParams.hash) \/ state.hasBefore)
                THEN /\ pending' = Append(pending, queryParams)
                     /\ state' = [state EXCEPT !.loading = TRUE, !.error = null]
                ELSE /\ pending' = pending
                     /\ state' = state
             /\ (location' = NoSearch /\ ~state.hasBefore) => pending' = pending]_vars

\* The URL was cleared while the state held the queryParams of a 'next'
\* cursor and hasBefore was false, and no fetch was issued.
C14_Witness ==
  /\ mounted
  /\ ~state.loading
  /\ location = NoSearch
  /\ state.queryParams.page = Some("next")
  /\ ~state.hasBefore
  /\ pending = <<>>

\* C15 as claimed: the one evaluation of componentDidUpdate that is kept from
\* fetching, apart from those made while loading, is the one that follows the
\* step in which the component left Error; the evaluation that commits a
\* rejection and those for a URL change or a re-render on a state that is not
\* loading fetch when the URL holds new parameters.
C15_SuppressedOnceAfterLeavingError ==
  [][/\ (leftError /\ Observed) => pending' = pending
     /\ (~leftError /\ NewParams(state', location') /\ Failed)
          => Len(pending') = Len(pending)
     /\ (~leftError /\ NewParams(state', location') /\ ~state.loading /\ Observed)
          => pending' = Append(pending, obtainQueryParams(location'))]_vars

\* C15 as amended: the one evaluation that is kept from fetching, apart from
\* those made while loading, is the one that commits a rejection, that is
\* the step into Error: it leaves one request fewer in flight.  Every
\* evaluation for a URL change or a re-render on a state that is not
\* loading, in Error too, fetches when the URL holds new parameters.  The
\* step out of Error is the step that issues such a fetch, so the
\* evaluations after it are skipped because the component is loading.
C15_SuppressedOnceOnEnteringError ==
  /\ [](leftError => state.loading)
  /\ [][/\ Failed => (Len(pending') < Len(pending) /\ Status' = "Error")
        /\ (NewParams(state', location') /\ ~state.loading /\ Observed)
             => pending' = Append(pending, obtainQueryParams(location'))]_vars

\* A rejection was committed while the URL held new parameters with a hash,
\* and no fetch was issued for them.
C15_Witness ==
  /\ recording = "recovery"
  /\ mounted
  /\ Status = "Error"
  /\ pending = <<>>
  /\ truthy(location.hash)
  /\ state.queryParams # obtainQueryParams(location)

\* C16 as claimed: an accepted feed record arriving while hasBefore is false
\* is merged whatever the status, and the step leaves loading, error,
\* hasBefore and the applied queryParams as they were.
C16_MergeLeavesStatus ==
  [][\A tx \in Txs :
       (~state.hasBefore /\ Accepted(tx))
         => /\ state'.transactions = helpersUpdateListWs(state.transactions, tx, TX_COUNT)
            /\ state'.loading = state.loading
            /\ state'.error = state.error
            /\ state'.hasBefore = state.hasBefore
            /\ state'.queryParams = state.queryParams]_vars

\* C17: in every state firstHash and firstTimestamp are those of the first
\* transaction of the window and lastHash and lastTimestamp those of the
\* last one, and the four are null exactly when the window is empty.
C17_BoundaryCursors ==
  LET transactions == state.transactions
      n == Len(transactions)
  IN IF n = 0
     THEN /\ state.firstHash = null /\ state.firstTimestamp = null
          /\ state.lastHash = null /\ state.lastTimestamp = null
     ELSE /\ state.firstHash = Some(transactions[1].tx_id)
          /\ state.firstTimestamp = Some(transactions[1].timestamp)
          /\ state.lastHash = Some(transactions[n].tx_id)
          /\ state.lastTimestamp = Some(transactions[n].timestamp)

\* A feed record was merged in front of a window that was not full and made
\* it full: the first cursor is the merged record and the last cursor is
\* another one.
C17_Witness ==
  /\ lastWs # null
  /\ truthy(lastWs[1].merged)
  /\ ~lastWs[1].present
  /\ ~lastWs[1].wasFull
  /\ Len(state.transactions) = TX_COUNT
  /\ state.firstHash = lastWs[1].merged
  /\ state.lastHash # state.firstHash

\* C18 as claimed: when the component was constructed on a URL with a cursor,
\* no feed event changes the window while the start-up request is in flight
\* or after it was rejected.
C18_NoLiveMergeBeforeFirstPage ==
  [][(/\ startup \in {"pending", "failed"}
      /\ truthy(state.queryParams.hash)
      /\ FeedEvent)
       => state'.transactions = state.transactions]_vars

\* C19 as claimed: applying a result changes the URL only when the URL still
\* holds the parameters of the request: when the URL was changed to another
\* cursor while a 'previous' request was in flight, the result with has_more
\* false leaves that URL as it is.
C19_ClearsOnlyOwnQueryParams ==
  [][\A k \in DOMAIN pending, data \in FetchedData :
       (/\ mounted
        /\ obtainQueryParams(location) # pending[k]
        /\ FetchResolved(k, data))
         => location' = location]_vars

\* C20 as claimed: a feed event sets hasAfter only when the merge dropped a
\* record from the end of the window, that is when the window was full and
\* the record was not in it; a record already in a full window leaves
\* hasAfter as it was.
C20_HasAfterOnlyWhenPushedOut ==
  [][\A tx \in Txs :
       (Accepted(tx) /\ ~state.hasAfter /\ state'.hasAfter)
         => /\ Len(state.transactions) = TX_COUNT
            /\ tx.tx_id \notin IdsOf(state.transactions)
            /\ state'.transactions # state.transactions]_vars

====
